---- MODULE Spec2Model ----
(***************************************************************************)
(* Local embedding service: the /embed and /health handlers of the four    *)
(* server programs of the repository (server.js, unnamed/part_000, and the *)
(* two programs of unnamed/part_001), with the vector post-processing      *)
(* functions they call and the external inference collaborator (embedder)  *)
(* as a nondeterministic environment.                                      *)
(*                                                                         *)
(* Numbers.  Tensor entries are integers; a mean is an exact rational      *)
(* <<num, den>>; an entry of an embedding is a pair [n, r] that stands for *)
(* the real number n / sqrt(r), which is what l2norm produces without      *)
(* rounding.  Floating-point rounding is not modelled.                     *)
(* Strings are sequences of one-character strings.                         *)
(***************************************************************************)
EXTENDS Integers, Sequences, FiniteSets, TLC

VARIABLES
    file,        \* which server program is running
    MODEL_ID,    \* configuration: the model identifier
    TARGET_DIM,  \* configuration: target dimensionality (part_000)
    pc,          \* per request: position of its handler
    body,        \* per request: the request body
    texts,       \* per request: the normalized batch
    idx,         \* per request: loop counter i (number of items completed)
    data,        \* per request: embeddings accumulated so far
    totalTokens, \* per request: running token total
    resp,        \* per request: the response sent, or NoResp
    calls,       \* per request: the inference calls issued so far, in order
    tensor,      \* post-processor harness: the tensor under test
    pooled       \* post-processor harness: meanPoolTensor's result, or NotYet

vars == <<file, MODEL_ID, TARGET_DIM, pc, body, texts, idx, data, totalTokens,
          resp, calls, tensor, pooled>>

\* ---------------------------------------------------------------- bounds
MaxBatch == 2
MaxTarget == 3
MaxTokens == 2
MaxDim == 2

\* ---------------------------------------------------------------- strings
Chr(s) == [k |-> "str", s |-> s]
NULL == [k |-> "null"]
UNDEF == [k |-> "undefined"]
Arr(a) == [k |-> "arr", a |-> a]
Bool(b) == [k |-> "bool", b |-> b]

SPACE == <<" ">>

\* String(v ?? dflt) for v null, undefined or a string
StringOr(v, dflt) == IF v.k = "str" THEN v.s ELSE dflt

\* v || dflt followed by String(): "", null and undefined are falsy
StringOrFalsy(v, dflt) == IF v.k = "str" /\ Len(v.s) > 0 THEN v.s ELSE dflt

RECURSIVE TrimLeft(_)
TrimLeft(s) == IF Len(s) > 0 /\ Head(s) = " " THEN TrimLeft(Tail(s)) ELSE s

RECURSIVE TrimRight(_)
TrimRight(s) ==
    IF Len(s) > 0 /\ s[Len(s)] = " " THEN TrimRight(SubSeq(s, 1, Len(s) - 1)) ELSE s

\* String.prototype.trim
trim(s) == TrimRight(TrimLeft(s))

\* ---------------------------------------------------------------- rationals
Abs(x) == IF x < 0 THEN 0 - x ELSE x

RECURSIVE GCD(_, _)
GCD(a, b) == IF b = 0 THEN a ELSE GCD(b, a % b)

Rat(n, d) == LET g == GCD(Abs(n), d) IN IF n = 0 THEN <<0, 1>> ELSE <<n \div g, d \div g>>
RatAdd(a, b) == Rat(a[1] * b[2] + b[1] * a[2], a[2] * b[2])
RatMul(a, b) == Rat(a[1] * b[1], a[2] * b[2])
RatDivInt(a, k) == Rat(a[1], a[2] * k)
RatZero == <<0, 1>>
RatOne == <<1, 1>>

\* a plain number x as an embedding entry, and the entry x / sqrt(r)
Plain(x) == [n |-> x, r |-> RatOne]
Over(x, r) == [n |-> x, r |-> r]
ZeroNum == Plain(RatZero)

RECURSIVE SumSquares(_)
SumSquares(v) == IF Len(v) = 0 THEN RatZero ELSE RatAdd(RatMul(Head(v), Head(v)), SumSquares(Tail(v)))

\* ---------------------------------------------------------------- post-processor
Tensor(T, D, d) == [dims |-> <<1, T, D>>, data |-> d]

\* the accumulation loop of meanPoolTensor: out[i % dim] += data[i]
RECURSIVE PoolAcc(_, _, _, _, _)
PoolAcc(out, d, dim, i, n) ==
    IF i >= n THEN out
    ELSE PoolAcc([out EXCEPT ![(i % dim) + 1] = RatAdd(@, <<d[i + 1], 1>>)], d, dim, i + 1, n)

\* the accumulation loop with the buffer read column-major: out[i / tokens] += data[i]
RECURSIVE PoolAccColumnMajor(_, _, _, _, _)
PoolAccColumnMajor(out, d, tokens, i, n) ==
    IF i >= n THEN out
    ELSE PoolAccColumnMajor([out EXCEPT ![(i \div tokens) + 1] = RatAdd(@, <<d[i + 1], 1>>)],
                            d, tokens, i + 1, n)

meanPoolColumnMajor(t) ==
    LET tokens == t.dims[2]
        dim == t.dims[3]
        acc == PoolAccColumnMajor([d \in 1..dim |-> RatZero], t.data, tokens, 0, tokens * dim)
    IN  [vec |-> [d \in 1..dim |-> RatDivInt(acc[d], tokens)], tokens |-> tokens]

meanPoolTensor(t) ==
    LET tokens == t.dims[2]
        dim == t.dims[3]
        acc == PoolAcc([d \in 1..dim |-> RatZero], t.data, dim, 0, tokens * dim)
    IN  [vec |-> [d \in 1..dim |-> RatDivInt(acc[d], tokens)], tokens |-> tokens]

l2norm(v) ==
    LET s == SumSquares(v)
        n2 == IF s = RatZero THEN RatOne ELSE s
    IN  [i \in 1..Len(v) |-> Over(v[i], n2)]

\* adjustDim without the padding branch
adjustDimNoPad(vec, target) == IF Len(vec) <= target THEN vec ELSE SubSeq(vec, 1, target)

adjustDim(vec, target) ==
    IF Len(vec) = target THEN vec
    ELSE IF Len(vec) < target THEN vec \o [i \in 1..(target - Len(vec)) |-> ZeroNum]
    ELSE SubSeq(vec, 1, target)

\* ---------------------------------------------------------------- configuration
Files == {"server", "part_000", "part_001a", "part_001b"}

NORMALIZE == TRUE
USE_PREFIX_FOR_BGE == TRUE
RESPONSE_MODEL_LABEL == "text-embedding-3-small"

DefaultModelId == <<"X", "/", "b", "g", "e", "-", "s">>
ModelIds == {DefaultModelId, <<"B", "G", "E">>, <<"m", "i", "n", "i">>}

Lower(ch) ==
    CASE ch = "B" -> "b" [] ch = "G" -> "g" [] ch = "E" -> "e" [] ch = "X" -> "x" [] OTHER -> ch

Contains(s, pat) ==
    \E i \in 1..(Len(s) - Len(pat) + 1) : SubSeq(s, i, i + Len(pat) - 1) = pat

\* /bge/i.test(id)
bgeTest(id) == Contains([i \in 1..Len(id) |-> Lower(id[i])], <<"b", "g", "e">>)

QueryPrefix == <<"q", "u", "e", "r", "y", ":", " ">>
PassagePrefix == <<"p", "a", "s", "s", "a", "g", "e", ":", " ">>

\* withPrefix without the query branch
withPrefixAlwaysPassage(str, kind) ==
    IF ~USE_PREFIX_FOR_BGE \/ ~bgeTest(MODEL_ID) THEN str ELSE PassagePrefix \o str

withPrefix(str, kind) ==
    IF ~USE_PREFIX_FOR_BGE \/ ~bgeTest(MODEL_ID) THEN str
    ELSE IF kind = "query" THEN QueryPrefix \o str
    ELSE PassagePrefix \o str

\* ---------------------------------------------------------------- request normalizer
\* Array.isArray(input) ? input : [String(input ?? " ")]
toItems(input) == IF input.k = "arr" THEN input.a ELSE <<Chr(StringOr(input, SPACE))>>

\* s = String(t ?? "").trim(); s.length ? s : " "
cleanText(t) == LET s == trim(StringOr(t, <<>>)) IN IF Len(s) > 0 THEN s ELSE SPACE

\* req.body?.type === "query" ? "query" : "passage"
kindOf(b) == IF b.type = "query" THEN "query" ELSE "passage"

\* the batch of texts the handler of the running program passes to the embedder
normalizeInput(input, kind) ==
    LET items == toItems(input)
    IN  CASE file \in {"server", "part_000"} -> [i \in 1..Len(items) |-> cleanText(items[i])]
          [] file = "part_001a" -> [i \in 1..Len(items) |-> withPrefix(cleanText(items[i]), kind)]
          [] OTHER -> [i \in 1..Len(items) |-> StringOrFalsy(items[i], SPACE)]

\* ---------------------------------------------------------------- the collaborator
\* What a call of embedder can do: raise, or return an object.  A returned
\* object is a record that has or lacks the fields data and dims.
Errors == {[message |-> "inference failed"]}
TypeErrorDims == [message |-> "undefined is not iterable"]

Raise(e) == [o |-> "raise", e |-> e]
Return(v) == [o |-> "return", v |-> v]

\* the tensors the loaded model produces for the texts of the requests
ModelTensors ==
    { Tensor(1, 2, <<1, 0>>), Tensor(2, 2, <<1, 0, 0, 1>>), Tensor(2, 2, <<0, 0, 0, 0>>),
      Tensor(2, 1, <<1, 2>>), Tensor(1, 3, <<0, 2, 1>>) }

RECURSIVE ColumnSum(_, _, _)
ColumnSum(t, d, n) ==
    IF n = 0 THEN 0 ELSE t.data[(n - 1) * t.dims[3] + d] + ColumnSum(t, d, n - 1)

\* the mean over the token rows of column d, as the definition of a mean
ColumnMean(t, d) == Rat(ColumnSum(t, d, t.dims[2]), t.dims[2])

MeanVector(t) == [d \in 1..t.dims[3] |-> ColumnMean(t, d)]

UnitVector(v) ==
    LET s == SumSquares(v)
    IN  [i \in 1..Len(v) |-> Over(v[i], IF s = RatZero THEN RatOne ELSE s)]

PlainVector(v) == [i \in 1..Len(v) |-> Plain(v[i])]

\* embedder(text, {pooling: "mean", normalize}) honouring the options
PooledResult(t, normalize) ==
    [data |-> IF normalize THEN UnitVector(MeanVector(t)) ELSE PlainVector(MeanVector(t)),
     dims |-> <<1, t.dims[3]>>]

\* the tensors among them that the fallback calls of part_001a are given
FallbackTensors == {Tensor(2, 2, <<1, 0, 0, 1>>), Tensor(2, 1, <<1, 2>>)}

RawOutcomes ==
    {Raise(e) : e \in Errors}
        \cup {Return(t) : t \in (IF file = "part_001a" THEN FallbackTensors ELSE ModelTensors)}
        \cup {Return([data |-> <<>>])}

PooledOutcomes(normalize) ==
    {Raise(e) : e \in Errors}
        \cup {Return(PooledResult(t, normalize)) : t \in {Tensor(1, 2, <<1, 0>>), Tensor(2, 1, <<1, 2>>)}}
        \cup {Return([dims |-> <<1, 2>>]), Return([data |-> PlainVector(<<RatOne, RatZero>>)])}

\* ---------------------------------------------------------------- requests
Clients == {1, 2}
Solo == {1}

NoResp == [status |-> 0]
Absent == "absent"

RECURSIVE SeqsUpTo(_, _)
SeqsUpTo(S, n) ==
    IF n = 0 THEN {<<>>}
    ELSE LET shorter == SeqsUpTo(S, n - 1)
         IN  shorter \cup {Append(q, x) : q \in {r \in shorter : Len(r) = n - 1}, x \in S}

Elements == {NULL, Chr(<<" ", "a">>)}
Inputs ==
    {UNDEF, NULL, Chr(<<>>), Chr(<<" ", " ">>), Chr(<<"a", " ">>)}
        \cup {Arr(a) : a \in SeqsUpTo(Elements, MaxBatch)}

\* the fields of the request body the running program reads
Bodies ==
    IF file = "part_001a"
    THEN [input : Inputs, type : {Absent, "query", "QUERY"}, normalize : {UNDEF, Bool(FALSE)}]
    ELSE [input : Inputs, type : {Absent}, normalize : {UNDEF}]

ConcBodies ==
    [input : {Chr(<<"a">>), Arr(<<NULL, NULL>>)}, type : {Absent}, normalize : {UNDEF}]

\* req.body?.normalize ?? NORMALIZE
normalizeOf(b) == IF b.normalize.k = "bool" THEN b.normalize.b ELSE NORMALIZE

\* String(e?.message || e), e?.message || String(e), e.message
errorText(e) == IF e.message # "" THEN e.message ELSE "Error"

\* ---------------------------------------------------------------- response assembler
Pending == [o |-> "pending"]

\* one entry of the calls log: the call and, once resolved, what it did
Call(item, text, pooling) == [item |-> item, text |-> text, pooling |-> pooling, result |-> Pending]

\* the 200 response of the running program for the accumulated data
Success(c, d, tt) ==
    CASE file \in {"server", "part_000"} ->
            [status |-> 200,
             body |-> [object |-> "list", data |-> d, model |-> RESPONSE_MODEL_LABEL,
                       usage |-> [prompt_tokens |-> tt, total_tokens |-> tt]]]
      [] file = "part_001a" ->
            [status |-> 200,
             body |-> [ok |-> TRUE, model |-> MODEL_ID,
                       dim |-> IF \E i \in 1..Len(d) : Len(d[i]) > 0
                               THEN Len(d[CHOOSE i \in 1..Len(d) :
                                          Len(d[i]) > 0 /\ \A j \in 1..(i - 1) : Len(d[j]) = 0])
                               ELSE 0,
                       vectors |-> d,
                       data |-> [i \in 1..Len(d) |-> [embedding |-> d[i]]]]]
      [] OTHER ->
            [status |-> 200,
             body |-> [ok |-> TRUE, model |-> MODEL_ID,
                       dim |-> IF Len(d) > 0 THEN Len(d[1]) ELSE 0, vectors |-> d]]

\* the 500 response of the running program for a caught error e
Failure(e) ==
    IF file \in {"server", "part_000"}
    THEN [status |-> 500,
          body |-> [object |-> "list", data |-> <<>>, model |-> RESPONSE_MODEL_LABEL,
                    usage |-> [prompt_tokens |-> 0, total_tokens |-> 0],
                    error |-> errorText(e)]]
    ELSE [status |-> 500, body |-> [ok |-> FALSE, error |-> errorText(e)]]

\* the first call of the loop body for an item: pooled in part_001a, raw elsewhere
FirstCallPooled == file = "part_001a"

SetResult(log, r) == [log EXCEPT ![Len(log)].result = r]

\* a catch block that issues the failed call again instead of responding
FailRetry(c, e, r) ==
    /\ calls' = [calls EXCEPT ![c] =
            Append(SetResult(@, r), Call(idx[c] + 1, texts[c][idx[c] + 1], FALSE))]
    /\ UNCHANGED <<resp, pc, data, totalTokens, idx>>

\* the handler runs on to its catch block
Fail(c, e, r) ==
    /\ resp' = [resp EXCEPT ![c] = Failure(e)]
    /\ pc' = [pc EXCEPT ![c] = "done"]
    /\ calls' = [calls EXCEPT ![c] = SetResult(@, r)]
    /\ UNCHANGED <<data, totalTokens, idx>>

\* data.push / vectors.push, then the next iteration or the response
PushItem(c, entry, tokens, r) ==
    LET d == Append(data[c], entry)
        tt == totalTokens[c] + tokens
        i == idx[c] + 1
    IN  /\ data' = [data EXCEPT ![c] = d]
        /\ totalTokens' = [totalTokens EXCEPT ![c] = tt]
        /\ idx' = [idx EXCEPT ![c] = i]
        /\ IF i = Len(texts[c])
           THEN /\ resp' = [resp EXCEPT ![c] = Success(c, d, tt)]
                /\ pc' = [pc EXCEPT ![c] = "done"]
                /\ calls' = [calls EXCEPT ![c] = SetResult(@, r)]
           ELSE /\ calls' = [calls EXCEPT ![c] =
                        Append(SetResult(@, r), Call(i + 1, texts[c][i + 1], FirstCallPooled))]
                /\ pc' = [pc EXCEPT ![c] = IF FirstCallPooled THEN "pooled" ELSE "raw"]
                /\ UNCHANGED resp

\* one embedding of server.js / part_000 from a raw tensor
embedding(raw) ==
    LET p == meanPoolTensor(raw)
        emb == IF NORMALIZE THEN l2norm(p.vec) ELSE PlainVector(p.vec)
    IN  IF file = "part_000" THEN adjustDim(emb, TARGET_DIM) ELSE emb

\* the vector of the fallback branch of part_001a
fallbackVector(raw, normalize) ==
    LET vec == meanPoolTensor(raw).vec
    IN  IF normalize THEN l2norm(vec) ELSE PlainVector(vec)

\* out?.data && out?.dims?.length >= 1, out being null after a caught raise
\* the guard without its test of dims
hasBuiltinOnData(out) == out.o = "return" /\ "data" \in DOMAIN out.v

hasBuiltin(out) ==
    /\ out.o = "return"
    /\ "data" \in DOMAIN out.v
    /\ "dims" \in DOMAIN out.v
    /\ Len(out.v.dims) >= 1

\* ---------------------------------------------------------------- handlers
\* POST /embed up to its first await
Receive(c, b) ==
    /\ pc[c] = "idle"
    /\ LET t == normalizeInput(b.input, kindOf(b))
       IN  /\ body' = [body EXCEPT ![c] = b]
           /\ texts' = [texts EXCEPT ![c] = t]
           /\ data' = [data EXCEPT ![c] = <<>>]
           /\ totalTokens' = [totalTokens EXCEPT ![c] = 0]
           /\ idx' = [idx EXCEPT ![c] = 0]
           /\ IF Len(t) = 0
              THEN /\ resp' = [resp EXCEPT ![c] = Success(c, <<>>, 0)]
                   /\ pc' = [pc EXCEPT ![c] = "done"]
                   /\ UNCHANGED calls
              ELSE /\ calls' = [calls EXCEPT ![c] = <<Call(1, t[1], FirstCallPooled)>>]
                   /\ pc' = [pc EXCEPT ![c] = IF FirstCallPooled THEN "pooled" ELSE "raw"]
                   /\ UNCHANGED resp
    /\ UNCHANGED <<file, MODEL_ID, TARGET_DIM, tensor, pooled>>

\* part_001a: the pooled call resolves (a raise is caught and becomes null)
ResolvePooled(c, out) ==
    /\ pc[c] = "pooled"
    /\ IF hasBuiltin(out)
       THEN PushItem(c, out.v.data, 0, out)
       ELSE /\ calls' = [calls EXCEPT ![c] =
                    Append(SetResult(@, out), Call(idx[c] + 1, texts[c][idx[c] + 1], FALSE))]
            /\ pc' = [pc EXCEPT ![c] = "raw"]
            /\ UNCHANGED <<data, totalTokens, idx, resp>>
    /\ UNCHANGED <<file, MODEL_ID, TARGET_DIM, body, texts, tensor, pooled>>

\* the raw call resolves: pooling, normalization, reconciliation, push
ResolveRaw(c, out) ==
    /\ pc[c] = "raw"
    /\ IF out.o = "raise" THEN Fail(c, out.e, out)
       ELSE IF "dims" \notin DOMAIN out.v THEN Fail(c, TypeErrorDims, out)
       ELSE CASE file \in {"server", "part_000"} ->
                    PushItem(c, [object |-> "embedding", index |-> idx[c],
                                 embedding |-> embedding(out.v)],
                             meanPoolTensor(out.v).tokens, out)
              [] file = "part_001a" ->
                    PushItem(c, fallbackVector(out.v, normalizeOf(body[c])), 0, out)
              [] OTHER -> PushItem(c, PlainVector(meanPoolTensor(out.v).vec), 0, out)
    /\ UNCHANGED <<file, MODEL_ID, TARGET_DIM, body, texts, tensor, pooled>>

OkText == <<"o", "k">>

\* GET /health up to its await (part_001b has no such route)
HealthStart(c) ==
    /\ pc[c] = "idle"
    /\ file # "part_001b"
    /\ pc' = [pc EXCEPT ![c] = "health"]
    /\ calls' = [calls EXCEPT ![c] = <<Call(0, OkText, file = "part_001a")>>]
    /\ UNCHANGED <<file, MODEL_ID, TARGET_DIM, body, texts, idx, data, totalTokens, resp,
                   tensor, pooled>>

\* out?.dims?.at(-1) ?? out?.data?.length ?? null, with 0 - 1 for null
healthDim(out) ==
    IF out.o = "raise" THEN 0 - 1
    ELSE IF "dims" \in DOMAIN out.v /\ Len(out.v.dims) >= 1 THEN out.v.dims[Len(out.v.dims)]
    ELSE IF "data" \in DOMAIN out.v THEN Len(out.v.data)
    ELSE 0 - 1

\* GET /health after its await
HealthResolve(c, out) ==
    /\ pc[c] = "health"
    /\ pc' = [pc EXCEPT ![c] = "done"]
    /\ calls' = [calls EXCEPT ![c] = SetResult(@, out)]
    /\ resp' = [resp EXCEPT ![c] =
          IF file = "part_001a"
          THEN [status |-> 200, body |-> [ok |-> TRUE, model |-> MODEL_ID,
                                           dim |-> healthDim(out), normalize |-> NORMALIZE]]
          ELSE IF out.o = "raise"
          THEN [status |-> 500, body |-> [ok |-> FALSE, error |-> errorText(out.e)]]
          ELSE IF "dims" \notin DOMAIN out.v
          THEN [status |-> 500, body |-> [ok |-> FALSE, error |-> errorText(TypeErrorDims)]]
          ELSE IF file = "server"
          THEN [status |-> 200, body |-> [ok |-> TRUE, model |-> MODEL_ID,
                                           dim |-> Len(meanPoolTensor(out.v).vec)]]
          ELSE [status |-> 200, body |-> [ok |-> TRUE, model |-> MODEL_ID,
                                           base_dim |-> Len(meanPoolTensor(out.v).vec),
                                           target_dim |-> TARGET_DIM]]]
    /\ UNCHANGED <<file, MODEL_ID, TARGET_DIM, body, texts, idx, data, totalTokens,
                   tensor, pooled>>

\* ---------------------------------------------------------------- post-processor harness
NotYet == [vec |-> <<>>, tokens |-> 0]

TensorValues == {0, 1, 2}

AllTensors ==
    UNION { {Tensor(T, D, d) : d \in [1..(T * D) -> TensorValues]} :
              T \in 1..MaxTokens, D \in 1..MaxDim }

Pool ==
    /\ pooled = NotYet
    /\ pooled' = meanPoolTensor(tensor)
    /\ UNCHANGED <<file, MODEL_ID, TARGET_DIM, pc, body, texts, idx, data, totalTokens,
                   resp, calls, tensor>>

\* ---------------------------------------------------------------- specifications
NoBody == [input |-> UNDEF, type |-> Absent, normalize |-> UNDEF]

InitRequests ==
    /\ pc = [c \in Clients |-> "idle"]
    /\ body = [c \in Clients |-> NoBody]
    /\ texts = [c \in Clients |-> <<>>]
    /\ idx = [c \in Clients |-> 0]
    /\ data = [c \in Clients |-> <<>>]
    /\ totalTokens = [c \in Clients |-> 0]
    /\ resp = [c \in Clients |-> NoResp]
    /\ calls = [c \in Clients |-> <<>>]

Init ==
    /\ file \in Files
    /\ MODEL_ID \in (IF file = "part_001a" THEN ModelIds ELSE {DefaultModelId})
    /\ TARGET_DIM \in (IF file = "part_000" THEN 0..MaxTarget ELSE {0})
    /\ InitRequests
    /\ tensor = Tensor(1, 1, <<0>>)
    /\ pooled = NotYet

\* one request at a time
Next ==
    \/ \E c \in Solo : \E b \in Bodies : Receive(c, b)
    \/ \E c \in Solo : \E out \in PooledOutcomes(normalizeOf(body[c])) : ResolvePooled(c, out)
    \/ \E c \in Solo : \E out \in RawOutcomes : ResolveRaw(c, out)

Spec == Init /\ [][Next]_vars

ConcRawOutcomes == {Raise(e) : e \in Errors} \cup {Return(Tensor(1, 2, <<1, 0>>))}
ConcPooledOutcomes ==
    {Raise(e) : e \in Errors} \cup {Return(PooledResult(Tensor(1, 2, <<1, 0>>), NORMALIZE))}

\* two requests serviced concurrently by the HTTP layer
NextConc ==
    \/ \E c \in Clients : \E b \in ConcBodies : Receive(c, b)
    \/ \E c \in Clients : \E out \in ConcPooledOutcomes : ResolvePooled(c, out)
    \/ \E c \in Clients : \E out \in ConcRawOutcomes : ResolveRaw(c, out)
    \/ \E c \in Clients : HealthStart(c)
    \/ \E c \in Clients :
         \E out \in (IF file = "part_001a" THEN ConcPooledOutcomes ELSE ConcRawOutcomes) :
            HealthResolve(c, out)

SpecConc == Init /\ [][NextConc]_vars

InitPool ==
    /\ file = "server"
    /\ MODEL_ID = DefaultModelId
    /\ TARGET_DIM = 0
    /\ InitRequests
    /\ tensor \in AllTensors
    /\ pooled = NotYet

NextPool == Pool

SpecPool == InitPool /\ [][NextPool]_vars

\* ---------------------------------------------------------------- reading the state
\* request c is a /embed request that has been received
IsEmbed(c) == pc[c] # "idle" /\ ~(Len(calls[c]) > 0 /\ calls[c][1].item = 0)

Responded(c) == IsEmbed(c) /\ resp[c] # NoResp

Raised(call) == call.result.o = "raise"
Returned(call) == call.result.o = "return"

\* the raw call returned an object that meanPoolTensor cannot destructure
PoolingFailed(call) == Returned(call) /\ ~call.pooling /\ "dims" \notin DOMAIN call.result.v

\* the elements of the request's input, in order
InputElements(input) == IF input.k = "arr" THEN input.a ELSE <<input>>

\* the trimmed string form of an element, or the single-space placeholder
Placeheld(v) == LET s == trim(StringOr(v, <<>>)) IN IF Len(s) > 0 THEN s ELSE SPACE

\* the last call issued for item i of request c
LastCall(c, i) ==
    calls[c][CHOOSE k \in 1..Len(calls[c]) :
                /\ calls[c][k].item = i
                /\ \A m \in (k + 1)..Len(calls[c]) : calls[c][m].item # i]

\* the vector a tensor stands for: the column means, on the unit sphere if asked
ExpectedVector(t, normalize) ==
    IF normalize THEN UnitVector(MeanVector(t)) ELSE PlainVector(MeanVector(t))

\* v cut or zero-padded on the right to length n
PadTrunc(v, n) == [j \in 1..n |-> IF j <= Len(v) THEN v[j] ELSE ZeroNum]

\* the embedding the response owes item i
ItemVector(c, i) ==
    LET call == LastCall(c, i)
    IN  CASE file = "server" -> ExpectedVector(call.result.v, NORMALIZE)
          [] file = "part_000" -> PadTrunc(ExpectedVector(call.result.v, NORMALIZE), TARGET_DIM)
          [] file = "part_001a" ->
                IF call.pooling THEN call.result.v.data
                ELSE ExpectedVector(call.result.v, normalizeOf(body[c]))
          [] OTHER -> PlainVector(MeanVector(call.result.v))

RECURSIVE TokenSum(_, _)
TokenSum(log, k) ==
    IF k = 0 THEN 0
    ELSE (IF log[k].result.o = "return" /\ "dims" \in DOMAIN log[k].result.v
             /\ Len(log[k].result.v.dims) = 3
          THEN log[k].result.v.dims[2] ELSE 0) + TokenSum(log, k - 1)

\* ---------------------------------------------------------------- C1
\* C1: no partial results.  When the inference call or the pooling of some item
\* of a batch fails, the one response of the request has status 500, data equal
\* to the empty list, usage.prompt_tokens = usage.total_tokens = 0 and a
\* non-empty error field (server.js, part_000 and the first program of part_001).
C1_NoPartialResults ==
    \A c \in Clients :
        (/\ file # "part_001b"
         /\ Responded(c)
         /\ \E k \in 1..Len(calls[c]) : Raised(calls[c][k]) \/ PoolingFailed(calls[c][k]))
        => /\ resp[c].status = 500
           /\ "data" \in DOMAIN resp[c].body
           /\ resp[c].body.data = <<>>
           /\ "usage" \in DOMAIN resp[c].body
           /\ resp[c].body.usage = [prompt_tokens |-> 0, total_tokens |-> 0]
           /\ "error" \in DOMAIN resp[c].body
           /\ resp[c].body.error # ""

\* ---------------------------------------------------------------- C2
\* C2: batch order.  The data list of a success response has one entry per input
\* item, entry i carries index i (from 0) and the embedding computed from item i.
C2_BatchOrder ==
    \A c \in Clients :
        (file # "part_001b" /\ Responded(c) /\ resp[c].status = 200)
        => /\ "data" \in DOMAIN resp[c].body
           /\ Len(resp[c].body.data) = Len(InputElements(body[c].input))
           /\ \A i \in 1..Len(resp[c].body.data) :
                /\ "index" \in DOMAIN resp[c].body.data[i]
                /\ resp[c].body.data[i].index = i - 1
                /\ resp[c].body.data[i].embedding = ItemVector(c, i)

\* ---------------------------------------------------------------- C3
\* C3: every /embed response has usage.prompt_tokens = usage.total_tokens, and
\* in a success response both are the sum of the items' token counts T.
C3_UsageTotals ==
    \A c \in Clients :
        (file # "part_001b" /\ Responded(c))
        => /\ "usage" \in DOMAIN resp[c].body
           /\ resp[c].body.usage.prompt_tokens = resp[c].body.usage.total_tokens
           /\ resp[c].status = 200
                => resp[c].body.usage.total_tokens = TokenSum(calls[c], Len(calls[c]))

\* ---------------------------------------------------------------- C4
\* C4: adjustDim(v, target) has length target, agrees with v on the first
\* min(Len(v), target) entries and is 0 from Len(v) on; so every embedding
\* that part_000 accumulates or returns has length TARGET_DIM, whatever the
\* native dimension of the tensor it came from.
C4_AdjustDimension ==
    \A c \in Clients :
        (file = "part_000" /\ IsEmbed(c))
        => /\ \A i \in 1..Len(data[c]) :
                LET v == l2norm(meanPoolTensor(LastCall(c, i).result.v).vec)
                    e == data[c][i].embedding
                IN  /\ Len(e) = TARGET_DIM
                    /\ \A j \in 1..TARGET_DIM : e[j] = IF j <= Len(v) THEN v[j] ELSE ZeroNum
           /\ resp[c].status = 200
                => /\ Len(resp[c].body.data) = Len(texts[c])
                   /\ \A i \in 1..Len(resp[c].body.data) :
                        Len(resp[c].body.data[i].embedding) = TARGET_DIM

\* a success response of part_000 holding a truncated and a padded embedding
C4_Witness ==
    \E c \in Clients :
        /\ file = "part_000"
        /\ resp[c].status = 200
        /\ TARGET_DIM = 2
        /\ \E i, j \in 1..Len(data[c]) :
              /\ LastCall(c, i).result.v.dims[3] > TARGET_DIM
              /\ LastCall(c, j).result.v.dims[3] < TARGET_DIM

\* ---------------------------------------------------------------- C5
\* C5: for every input the batch handed to the inference loop is non-empty, has
\* one element per input element in input order, and each element is the
\* non-empty trimmed string form of its input element or the single space.
C5_NormalizedBatch ==
    \A c \in Clients :
        (file # "part_001a" /\ IsEmbed(c))
        => /\ Len(texts[c]) >= 1
           /\ Len(texts[c]) = Len(InputElements(body[c].input))
           /\ \A i \in 1..Len(texts[c]) :
                /\ Len(texts[c][i]) >= 1
                /\ texts[c][i] = Placeheld(InputElements(body[c].input)[i])

\* ---------------------------------------------------------------- C6
\* the call after call k of request c is the raw call for the same item and text
FallbackFollows(c, k) ==
    /\ k < Len(calls[c])
    /\ ~calls[c][k + 1].pooling
    /\ calls[c][k + 1].item = calls[c][k].item
    /\ calls[c][k + 1].text = calls[c][k].text

Outstanding == {c \in Clients : pc[c] \in {"pooled", "raw", "health"}}

\* C7: at most one inference call is outstanding on the shared embedder at any
\* moment, over all the requests in service; and a request has no call pending
\* besides the last one it issued.
C7_OneOutstanding ==
    /\ Cardinality(Outstanding) <= 1
    /\ \A c \in Clients :
          \A k \in 1..Len(calls[c]) : calls[c][k].result = Pending => k = Len(calls[c])

\* ---------------------------------------------------------------- C8
MissingData(call) == Returned(call) /\ "data" \notin DOMAIN call.result.v
MissingDims(call) ==
    Returned(call) /\ ("dims" \notin DOMAIN call.result.v \/ Len(call.result.v.dims) = 0)

\* the native dimension D the collaborator reported with a result
ReportedDim(call) == call.result.v.dims[Len(call.result.v.dims)]

\* each accumulated vector is a flat sequence of D numbers, on the unit sphere
\* exactly when normalization is on, and the fallback yields the vector the
\* pooled call would have returned for the same tensor
SameShape(c) ==
    \A i \in 1..Len(data[c]) :
        LET v == data[c][i]
            call == LastCall(c, i)
            ns == [j \in 1..Len(v) |-> v[j].n]
        IN  /\ Len(v) = ReportedDim(call)
            /\ v = (IF normalizeOf(body[c]) THEN UnitVector(ns) ELSE PlainVector(ns))
            /\ ~call.pooling => v = PooledResult(call.result.v, normalizeOf(body[c])).data

\* the success response has the same fields whichever path each item took
SameEnvelope(c) ==
    resp[c].status = 200
    => /\ DOMAIN resp[c].body = {"ok", "model", "dim", "vectors", "data"}
       /\ resp[c].body.vectors = data[c]
       /\ resp[c].body.data = [i \in 1..Len(data[c]) |-> [embedding |-> data[c][i]]]

BgeIds == {DefaultModelId, <<"B", "G", "E">>}

\* the text the collaborator is owed for item i of request c
PrefixedText(c, i) ==
    LET base == Placeheld(InputElements(body[c].input)[i])
    IN  IF MODEL_ID \in BgeIds
        THEN (IF body[c].type = "query" THEN QueryPrefix ELSE PassagePrefix) \o base
        ELSE base

\* C9: every text passed to the collaborator, by the pooled and by the fallback
\* call, is "query: " + text for type query and "passage: " + text for any
\* other type when the model identifier contains the marker, and the text
\* itself otherwise.
C9_PrefixStrategy ==
    \A c \in Clients :
        (file = "part_001a" /\ IsEmbed(c))
        => /\ \A i \in 1..Len(texts[c]) : texts[c][i] = PrefixedText(c, i)
           /\ \A k \in 1..Len(calls[c]) : calls[c][k].text = PrefixedText(c, calls[c][k].item)

\* the fallback call got the query-prefixed placeholder under an upper-case marker
C9_Witness ==
    \E c \in Clients :
        /\ file = "part_001a"
        /\ MODEL_ID = <<"B", "G", "E">>
        /\ \E k \in 1..Len(calls[c]) :
              /\ ~calls[c][k].pooling
              /\ Returned(calls[c][k])
              /\ calls[c][k].text = QueryPrefix \o SPACE

\* ---------------------------------------------------------------- C10
Row(t, r) == [d \in 1..t.dims[3] |-> t.data[(r - 1) * t.dims[3] + d]]

RowPermutations(T) == {p \in [1..T -> 1..T] : \A a, b \in 1..T : p[a] = p[b] => a = b}

PermuteRows(t, p) ==
    Tensor(t.dims[2], t.dims[3],
           [i \in 1..(t.dims[2] * t.dims[3]) |->
               t.data[(p[((i - 1) \div t.dims[3]) + 1] - 1) * t.dims[3] + ((i - 1) % t.dims[3]) + 1]])

\* C10: meanPool of a [1, T, D] tensor has length D and entry d equal to the sum
\* over t of data[t*D + d] divided by T; equal rows give that row; permuting
\* the rows changes nothing.
C10_MeanPool ==
    pooled # NotYet
    => /\ pooled.tokens = tensor.dims[2]
       /\ Len(pooled.vec) = tensor.dims[3]
       /\ \A d \in 1..tensor.dims[3] : pooled.vec[d] = ColumnMean(tensor, d)
       /\ (\A r \in 1..tensor.dims[2] : Row(tensor, r) = Row(tensor, 1))
             => pooled.vec = [d \in 1..tensor.dims[3] |-> <<Row(tensor, 1)[d], 1>>]
       /\ \A p \in RowPermutations(tensor.dims[2]) :
             meanPoolTensor(PermuteRows(tensor, p)).vec = pooled.vec

\* a pooled tensor of two different rows of two entries
C10_Witness ==
    /\ pooled # NotYet
    /\ tensor.dims = <<1, 2, 2>>
    /\ Row(tensor, 1) # Row(tensor, 2)
    /\ Row(tensor, 1)[1] # Row(tensor, 1)[2]

====
